---- MODULE Spec2Model ----
(***************************************************************************)
(* A model of the CrossKorean-22.10 pre-training notebook                  *)
(* (src/note/pretrain_mlm.ipynb): the pure function group_texts, the       *)
(* batched map that applies it, the top-to-bottom run of the code cells    *)
(* and the generator batch_iterator; and of the set-up script              *)
(* src/reset-lib.sh.                                                       *)
(*                                                                         *)
(* Five specifications share the module:                                   *)
(*   SpecGroup  calls of group_texts on batches drawn from bounded sets,   *)
(*              interleaved with re-executions of notebook cells;          *)
(*   SpecMap    tokenized_datasets.map(group_texts, batched=True, ...)     *)
(*              over one split;                                            *)
(*   Spec       one "run all" of the notebook, statement by statement;     *)
(*   SpecSh     one run of src/reset-lib.sh, command by command;           *)
(*   SpecIter   one call of the generator batch_iterator.                  *)
(***************************************************************************)
EXTENDS Integers, Sequences, FiniteSets, TLC

VARIABLES
    \* ---- the notebook run (Spec)
    pc,                 \* index into Steps of the next statement to execute
    run,                \* "running" | "done" | "failed"
    error,              \* the exception that ended the run and its statement
    executed,           \* how many times each statement has been executed
    corpus,             \* number of records of the cached OSCAR train split
    language,           \* the global language ("" while undefined)
    model_config,       \* the global model_config ("" while undefined)
    model_dir,          \* the global model_dir ("" while undefined)
    config,             \* the global config
    defs,               \* the functions defined so far (def cells)
    fs,                 \* the file system under model_dir
    raw_dataset,        \* the global raw_dataset: split name -> rows
    tokenizer,          \* the global tokenizer
    max_seq_length,     \* the global max_seq_length
    tokenized_datasets, \* the global tokenized_datasets
    \* ---- calls of group_texts (SpecGroup)
    examples,           \* the argument of the latest call
    outcome,            \* "idle" | "returned" | "raised"
    result,             \* what the latest call returned
    memo,               \* an earlier call, remembered: its argument and result
    last_cell,          \* the notebook cell executed last
    \* ---- the batched map (SpecMap)
    split,              \* the tokenized split handed to map
    num_proc,           \* map's num_proc
    batch_size,         \* map's batch_size
    mapped,             \* the split map returned
    \* ---- reset-lib.sh (SpecSh)
    sh_pc,              \* index into Script of the next command
    sh_cwd,             \* the shell's working directory
    sh_fs,              \* the directories below the repository root
    sh_env,             \* what conda and pip have set up
    sh_installed,       \* the editable installs: library -> what was installed
    sh_log,             \* the vendoring commands executed, in order
    \* ---- batch_iterator (SpecIter)
    bi_state,           \* "idle" | "running" | "done"
    bi_batch_size,      \* the argument batch_size
    bi_starts,          \* the values of i still to come
    yielded             \* the batches yielded so far

vars == <<pc, run, error, executed, corpus, language, model_config,
          model_dir, config, defs, fs, raw_dataset,
          tokenizer, max_seq_length, tokenized_datasets,
          examples, outcome, result, memo, last_cell,
          split, num_proc, batch_size, mapped,
          sh_pc, sh_cwd, sh_fs, sh_env, sh_installed, sh_log,
          bi_state, bi_batch_size, bi_starts, yielded>>

nbVars    == <<pc, run, error, executed, corpus, language, model_config,
               model_dir, config, defs, fs, raw_dataset,
               tokenizer, tokenized_datasets>>
groupVars == <<examples, outcome, result, memo, last_cell>>
mapVars   == <<split, num_proc, batch_size, mapped>>
shVars    == <<sh_pc, sh_cwd, sh_fs, sh_env, sh_installed, sh_log>>
iterVars  == <<bi_state, bi_batch_size, bi_starts, yielded>>

Min(a, b) == IF a < b THEN a ELSE b
Max(a, b) == IF a > b THEN a ELSE b

(***************************************************************************)
(* Python built-ins used by group_texts.                                   *)
(***************************************************************************)

\* sum(lists, []): the in-order concatenation of a list of lists.
RECURSIVE PySum(_)
PySum(lists) ==
    IF Len(lists) = 0 THEN <<>> ELSE Head(lists) \o PySum(Tail(lists))

\* len(range(start, stop, step)) for step > 0.
PyRangeLen(start, stop, step) ==
    IF stop <= start THEN 0 ELSE (stop - start + step - 1) \div step

\* list(range(start, stop, step)) for step > 0.
PyRange(start, stop, step) ==
    [j \in 1..PyRangeLen(start, stop, step) |-> start + (j - 1) * step]

\* t[i:j] for 0 <= i <= j: slicing clips to the list, it never raises.
PySlice(t, i, j) == SubSeq(t, Min(i, Len(t)) + 1, Min(j, Len(t)))

(***************************************************************************)
(* max_seq_length = 128 (cell 15); a global is undefined until its cell    *)
(* has run.                                                                *)
(***************************************************************************)
MaxSeqLengthValue == 128

Undefined == [defined |-> FALSE]
Defined(v) == [defined |-> TRUE, value |-> v]

(***************************************************************************)
(* group_texts(examples).  A batch is a dict: `keys` is its insertion      *)
(* order, `cols` maps each key to a list of token lists.  m is the value   *)
(* the global max_seq_length has when the body runs.                       *)
(***************************************************************************)

\* line 748: {k: sum(examples[k], []) for k in examples.keys()}
ConcatenatedExamples(ex) == [k \in DOMAIN ex.cols |-> PySum(ex.cols[k])]

\* line 749: list(examples.keys())[0] raises IndexError on an empty dict.
GroupTextsRaisesMutant(ex) ==
    \/ Len(ex.keys) = 0
    \/ Len(ex.cols[ex.keys[1]]) = 0

GroupTextsRaises(ex) == Len(ex.keys) = 0

\* lines 749-750: the first column's length, rounded down to a multiple of m.
TotalLengthMutant(ex, m) == Len(ConcatenatedExamples(ex)[ex.keys[1]])

TotalLength(ex, m) ==
    (Len(ConcatenatedExamples(ex)[ex.keys[1]]) \div m) * m

\* line 752: [t[i: i + m] for i in range(0, total_length, m)]
BlocksMutant(t, total_length, m) ==
    LET starts == PyRange(0, total_length, m)
    IN  [b \in 1..Len(starts) |-> PySlice(t, starts[b] + 1, starts[b] + 1 + m)]

Blocks(t, total_length, m) ==
    LET starts == PyRange(0, total_length, m)
    IN  [b \in 1..Len(starts) |-> PySlice(t, starts[b], starts[b] + m)]

\* lines 747-755: the whole call, as [raised, exc] or [raised, value].
GroupTexts(ex, m) ==
    IF GroupTextsRaises(ex)
    THEN [raised |-> TRUE, exc |-> "IndexError"]
    ELSE LET concatenated_examples == ConcatenatedExamples(ex)
             total_length == TotalLength(ex, m)
         IN  [raised |-> FALSE,
              value  |-> [k \in DOMAIN concatenated_examples |->
                            Blocks(concatenated_examples[k], total_length, m)]]

(***************************************************************************)
(* The batches group_texts is called with.  A record of n tokens is the    *)
(* list <<r, 1>>, ..., <<r, n>>: every token of a column is distinct, so   *)
(* a lost, duplicated or reordered token shows.  The first column's record *)
(* lengths are drawn from LenChoices; the records of the other columns are *)
(* longer by `skew` tokens (0 for the output of a tokenizer, whose columns *)
(* always agree).                                                          *)
(***************************************************************************)
MaxRecords == 3

LenChoices == {0, 1, MaxSeqLengthValue - 1, MaxSeqLengthValue,
               MaxSeqLengthValue + 1}

Skews == {-1, 0, MaxSeqLengthValue}

\* The columns tokenize_function produces (return_special_tokens_mask=True).
TokenizerColumns == <<"input_ids", "attention_mask", "special_tokens_mask">>

LenSeqs(n) == UNION {[1..k -> LenChoices] : k \in 0..n}

Record(r, n) == [o \in 1..n |-> <<r, o>>]

Range(f) == {f[i] : i \in DOMAIN f}

MkBatch(keys, lens, skew) ==
    [keys |-> keys,
     cols |-> [k \in Range(keys) |->
                 [r \in 1..Len(lens) |->
                    Record(r, IF k = keys[1] THEN lens[r]
                              ELSE Max(0, lens[r] + skew))]]]

Batches ==
    {MkBatch(<<>>, <<>>, 0)}
    \cup {MkBatch(<<"input_ids">>, lens, 0) : lens \in LenSeqs(MaxRecords)}
    \cup {MkBatch(TokenizerColumns, lens, skew) :
            lens \in LenSeqs(MaxRecords), skew \in Skews}

\* The batch of the calls made between the two compared calls.
OtherBatch == MkBatch(TokenizerColumns, <<MaxSeqLengthValue + 1>>, 0)

(***************************************************************************)
(* SpecGroup: group_texts is called after max_seq_length was defined; the  *)
(* first call is remembered, then cells are (re-)executed and group_texts  *)
(* is called again, on the remembered batch or on another one.             *)
(***************************************************************************)
MaxCalls == 3

NoMemo == [calls |-> 0]

\* The code cells a user may execute between two calls, by what they assign.
Cells == {"max_seq_length", "from_pretrained"}

\* What executing cell c leaves in the global max_seq_length: only cell 15
\* (line 397) assigns it.
CellMaxSeqLengthMutant(c, cur) ==
    IF c = "max_seq_length" THEN Defined(MaxSeqLengthValue)
    ELSE IF c = "from_pretrained" THEN Defined(4 * MaxSeqLengthValue)
    ELSE cur

CellMaxSeqLength(c, cur) ==
    IF c = "max_seq_length" THEN Defined(MaxSeqLengthValue) ELSE cur

InitGroupVars ==
    /\ examples = MkBatch(<<>>, <<>>, 0)
    /\ outcome = "idle"
    /\ result = <<>>
    /\ memo = NoMemo
    /\ last_cell = "none"

InitMapVars ==
    /\ split = <<>>
    /\ num_proc = 1
    /\ batch_size = 1
    /\ mapped = <<>>

\* reset-lib.sh is not running.
InitShIdle ==
    /\ sh_pc = 0
    /\ sh_cwd = "root"
    /\ sh_fs = <<>>
    /\ sh_env = {}
    /\ sh_installed = <<>>
    /\ sh_log = <<>>

\* batch_iterator has not been called.
InitIterIdle ==
    /\ bi_state = "idle"
    /\ bi_batch_size = 1
    /\ bi_starts = <<>>
    /\ yielded = <<>>

\* The notebook's globals before any cell has run.
InitGlobals ==
    /\ language = ""
    /\ model_config = ""
    /\ model_dir = ""
    /\ config = Undefined
    /\ defs = {}
    /\ fs = <<>>
    /\ raw_dataset = <<>>
    /\ tokenizer = Undefined
    /\ tokenized_datasets = Undefined

NoError == [step |-> "", exc |-> ""]

InitNbIdle ==
    /\ pc = 0
    /\ run = "idle"
    /\ error = NoError
    /\ executed = <<>>
    /\ corpus = 0
    /\ InitGlobals

InitGroup ==
    /\ InitShIdle
    /\ InitIterIdle
    /\ InitGroupVars
    /\ InitMapVars
    /\ InitNbIdle
    /\ max_seq_length = Defined(MaxSeqLengthValue)

\* One call group_texts(ex): the body reads the global max_seq_length.
Call(ex) ==
    LET r == GroupTexts(ex, max_seq_length.value)
    IN  /\ examples' = ex
        /\ outcome' = IF r.raised THEN "raised" ELSE "returned"
        /\ result' = IF r.raised THEN <<>> ELSE r.value

FirstCall ==
    /\ memo = NoMemo
    /\ \E ex \in Batches :
         /\ Call(ex)
         /\ memo' = [calls |-> 1, examples |-> examples',
                     outcome |-> outcome', result |-> result']
    /\ UNCHANGED <<last_cell, max_seq_length, nbVars, mapVars,
                   shVars, iterVars>>

CallAgain ==
    /\ memo # NoMemo
    /\ memo.calls < MaxCalls
    /\ Call(memo.examples)
    /\ memo' = [memo EXCEPT !.calls = @ + 1]
    /\ UNCHANGED <<last_cell, max_seq_length, nbVars, mapVars,
                   shVars, iterVars>>

CallOther ==
    /\ memo # NoMemo
    /\ memo.calls < MaxCalls
    /\ Call(OtherBatch)
    /\ memo' = [memo EXCEPT !.calls = @ + 1]
    /\ UNCHANGED <<last_cell, max_seq_length, nbVars, mapVars,
                   shVars, iterVars>>

RunCell ==
    /\ \E c \in Cells :
         /\ last_cell' = c
         /\ max_seq_length' = CellMaxSeqLength(c, max_seq_length)
    /\ UNCHANGED <<examples, outcome, result, memo, nbVars, mapVars,
                   shVars, iterVars>>

NextGroup == FirstCall \/ CallAgain \/ CallOther \/ RunCell

SpecGroup == InitGroup /\ [][NextGroup]_vars

(***************************************************************************)
(* Properties of group_texts (SpecGroup).                                  *)
(***************************************************************************)

\* The in-order concatenation of column k of the batch ex.
ColumnTokens(ex, k) == PySum(ex.cols[k])

\* Every column of the batch holds the same total number of tokens.
SameTotals(ex) ==
    \A k1, k2 \in DOMAIN ex.cols :
        Len(ColumnTokens(ex, k1)) = Len(ColumnTokens(ex, k2))

\* The first n elements of t (all of t when it has fewer).
Prefix(t, n) == SubSeq(t, 1, Min(n, Len(t)))

\* floor(L / max_seq_length) * max_seq_length, L the first column's total.
Kept(ex) ==
    (Len(ColumnTokens(ex, ex.keys[1])) \div MaxSeqLengthValue)
        * MaxSeqLengthValue

\* C1: for a batch whose columns all have the same total token count, every
\* block group_texts returns, in every column, has exactly max_seq_length
\* (128) elements.
C1_BlocksHaveMaxSeqLength ==
    (outcome = "returned" /\ SameTotals(examples)) =>
        \A k \in DOMAIN result :
            \A b \in 1..Len(result[k]) :
                Len(result[k][b]) = MaxSeqLengthValue

\* C1 witness: a returned batch of the three tokenizer columns, equal in
\* length, that has a remainder and yields at least two blocks per column.
C1_Witness ==
    /\ outcome = "returned"
    /\ examples.keys = TokenizerColumns
    /\ SameTotals(examples)
    /\ Len(result["attention_mask"]) >= 2
    /\ Len(ColumnTokens(examples, "input_ids")) % MaxSeqLengthValue # 0

\* C2 as stated: for every batch and column k the blocks, concatenated in
\* order, are the first floor(L / 128) * 128 tokens of column k, and only a
\* trailing remainder of fewer than 128 tokens is discarded.
C2_Original ==
    outcome = "returned" =>
        \A k \in DOMAIN result :
            /\ PySum(result[k]) = Prefix(ColumnTokens(examples, k), Kept(examples))
            /\ Len(ColumnTokens(examples, k)) - Len(PySum(result[k]))
                   < MaxSeqLengthValue

\* C2 amended: for every batch and column k the blocks, concatenated in
\* order, are the first floor(L / 128) * 128 tokens of column k (all of the
\* column when it is shorter); fewer than 128 tokens of a column are
\* discarded when the columns all have the same total token count.
C2_PrefixKept ==
    outcome = "returned" =>
        \A k \in DOMAIN result :
            /\ PySum(result[k]) = Prefix(ColumnTokens(examples, k), Kept(examples))
            /\ SameTotals(examples) =>
                   Len(ColumnTokens(examples, k)) - Len(PySum(result[k]))
                       < MaxSeqLengthValue

\* C2 witness: a returned batch with equal columns, at least two blocks and
\* a non-empty remainder that is dropped.
C2_Witness ==
    /\ outcome = "returned"
    /\ examples.keys = TokenizerColumns
    /\ SameTotals(examples)
    /\ Len(result["input_ids"]) >= 2
    /\ Len(PySum(result["input_ids"]))
           < Len(ColumnTokens(examples, "input_ids"))

\* C4 as stated: no call of group_texts raises, whatever the batch.
C4_Original == outcome # "raised"

\* C4 amended: a call of group_texts raises exactly when the batch has no
\* column; a batch with at least one column (also one with zero records or
\* with columns of different total lengths) gets a result.
C4_RaisesOnlyWithoutColumns ==
    outcome # "idle" =>
        /\ (outcome = "raised") <=> (Len(examples.keys) = 0)
        /\ (outcome = "returned") <=> (Len(examples.keys) > 0)

\* C4 witness: a call on a batch of three columns and zero records returned.
C4_Witness ==
    /\ outcome = "returned"
    /\ examples.keys = TokenizerColumns
    /\ Len(examples.cols["input_ids"]) = 0

NumRows(ds) == IF Len(ds.keys) = 0 THEN 0 ELSE Len(ds.cols[ds.keys[1]])

\* ds[i:j]: rows i..j-1 of every column.
SliceRows(ds, i, j) ==
    [keys |-> ds.keys,
     cols |-> [k \in DOMAIN ds.cols |-> PySlice(ds.cols[k], i, j)]]

\* Dataset.shard(num_shards, index, contiguous=True): rows [start, end).
ShardStart(n, num_shards, index) ==
    (n \div num_shards) * index + Min(index, n % num_shards)

ShardEnd(n, num_shards, index) ==
    ShardStart(n, num_shards, index) + (n \div num_shards)
        + (IF index < n % num_shards THEN 1 ELSE 0)

\* The batches of one shard: range(0, num_rows, batch_size), drop_last_batch
\* left at False.
ShardBatchesMutant(shard, bs) ==
    LET starts == PyRange(0, NumRows(shard) - bs + 1, bs)
    IN  [b \in 1..Len(starts) |-> SliceRows(shard, starts[b], starts[b] + bs)]

ShardBatches(shard, bs) ==
    LET starts == PyRange(0, NumRows(shard), bs)
    IN  [b \in 1..Len(starts) |-> SliceRows(shard, starts[b], starts[b] + bs)]

\* Column-wise concatenation of a list of column dicts over the keys ks.
ConcatColumns(ks, parts) ==
    [k \in ks |-> PySum([i \in 1..Len(parts) |-> parts[i][k]])]

\* One shard mapped: group_texts on each batch, results written in order.
MapShard(shard, bs, m) ==
    LET batches == ShardBatches(shard, bs)
    IN  ConcatColumns(DOMAIN shard.cols,
            [b \in 1..Len(batches) |-> GroupTexts(batches[b], m).value])

\* line 902, for one split ds.
MapGroupTexts(ds, np, bs, m) ==
    IF NumRows(ds) = 0 THEN ds.cols
    ELSE LET n == NumRows(ds)
             p == Min(np, n)
         IN  ConcatColumns(DOMAIN ds.cols,
                 [i \in 1..p |->
                     MapShard(SliceRows(ds, ShardStart(n, p, i - 1),
                                        ShardEnd(n, p, i - 1)), bs, m)])

(***************************************************************************)
(* SpecMap: one application of map(group_texts, batched=True) to a split   *)
(* of the three tokenizer columns, for several num_proc and batch_size     *)
(* (the notebook's call is num_proc = 4, batch_size = 1000).               *)
(***************************************************************************)
MaxSplitRecords == 4

SplitLenChoices == {1, MaxSeqLengthValue \div 2, MaxSeqLengthValue - 1,
                    MaxSeqLengthValue + 1}

Splits ==
    {MkBatch(TokenizerColumns, lens, 0) :
        lens \in UNION {[1..k -> SplitLenChoices] : k \in 0..MaxSplitRecords}}

NumProcs == {1, 2, 4}

BatchSizes == {1, 2, 1000}

InitMap ==
    /\ InitShIdle
    /\ InitIterIdle
    /\ InitGroupVars
    /\ InitNbIdle
    /\ max_seq_length = Defined(MaxSeqLengthValue)
    /\ split \in Splits
    /\ num_proc \in NumProcs
    /\ batch_size \in BatchSizes
    /\ mapped = <<>>

MapSplit ==
    /\ outcome = "idle"
    /\ mapped' = MapGroupTexts(split, num_proc, batch_size,
                               max_seq_length.value)
    /\ outcome' = "returned"
    /\ UNCHANGED <<examples, result, memo, last_cell, max_seq_length,
                   split, num_proc, batch_size, nbVars,
                   shVars, iterVars>>

NextMap == MapSplit

SpecMap == InitMap /\ [][NextMap]_vars

(***************************************************************************)
(* Properties of the batched map (SpecMap).                                *)
(***************************************************************************)

\* The tokens s are tokens of column k of ds in the column's order, each at
\* most once: token <<r, o>> is the o-th token of row r, so the column's
\* order is the order of the pairs.
InColumnOrder(s, ds, k) ==
    /\ \A i \in 1..Len(s) :
           /\ s[i][1] \in 1..Len(ds.cols[k])
           /\ s[i][2] \in 1..Len(ds.cols[k][s[i][1]])
    /\ \A i \in 1..(Len(s) - 1) :
           \/ s[i][1] < s[i + 1][1]
           \/ s[i][1] = s[i + 1][1] /\ s[i][2] < s[i + 1][2]

\* ceil(a / b)
CeilDiv(a, b) == (a + b - 1) \div b

\* How many batches map hands to the function: the batches of np balanced
\* contiguous shards of n rows, bs rows to a batch.
RECURSIVE BatchCount(_, _, _)
BatchCount(n, np, bs) ==
    IF n = 0 \/ np = 0 THEN 0
    ELSE CeilDiv(CeilDiv(n, np), bs) + BatchCount(n - CeilDiv(n, np), np - 1, bs)

Steps == <<"language", "model_config", "model_dir", "mkdir",
           "config_from_pretrained", "config_save_pretrained",
           "load_dataset", "new_tokenizer", "def_batch_iterator",
           "tokenizer_save", "max_seq_length", "split_train",
           "split_validation", "select_train", "select_validation",
           "tokenizer_from_pretrained", "def_tokenize_function",
           "map_tokenize_function", "def_group_texts", "map_group_texts">>

StepIndex(name) == CHOOSE i \in 1..Len(Steps) : Steps[i] = name

\* The statement executed after statement i: the next one down the notebook.
NextPcMutant(i) ==
    IF i = Len(Steps) THEN StepIndex("map_tokenize_function") ELSE i + 1

NextPc(i) == i + 1

\* What a library call may raise (missing cache, network, out of memory).
LibraryErrors == {"FileNotFoundError", "ConnectionError", "MemoryError"}

globals == <<language, model_config, model_dir, config, defs, fs,
             raw_dataset, tokenizer, max_seq_length, tokenized_datasets>>

At(name) == run = "running" /\ pc = StepIndex(name)

\* The statement at pc completed: go on with the next one, or finish.
Advance ==
    /\ executed' = [executed EXCEPT ![pc] = @ + 1]
    /\ pc' = NextPc(pc)
    /\ run' = IF NextPc(pc) > Len(Steps) THEN "done" ELSE "running"
    /\ UNCHANGED <<error, corpus, groupVars, mapVars,
                   shVars, iterVars>>

\* The statement at pc raised exc: nothing is assigned, the run ends there.
RaiseMutant(exc) ==
    /\ executed' = [executed EXCEPT ![pc] = @ + 1]
    /\ pc' = NextPc(pc)
    /\ run' = IF NextPc(pc) > Len(Steps) THEN "done" ELSE "running"
    /\ error' = [step |-> Steps[pc], exc |-> exc]
    /\ UNCHANGED <<globals, corpus, groupVars, mapVars,
                   shVars, iterVars>>

Raise(exc) ==
    /\ executed' = [executed EXCEPT ![pc] = @ + 1]
    /\ run' = "failed"
    /\ error' = [step |-> Steps[pc], exc |-> exc]
    /\ UNCHANGED <<pc, globals, corpus, groupVars, mapVars,
                   shVars, iterVars>>

\* d[k] = v on a dict.
Assign(d, k, v) == (k :> v) @@ d

(***************************************************************************)
(* The datasets library, as the notebook uses it.  The cached OSCAR train  *)
(* split has `corpus` records, numbered 0 .. corpus - 1; a Dataset made by *)
(* split slicing or select(range(n)) is a run of them, rows lo .. hi - 1.  *)
(***************************************************************************)
Rows(d) == d.lo .. (d.hi - 1)

NumRecords(d) == d.hi - d.lo

\* Python's round(a / b) for a >= 0, b > 0: to nearest, ties to even.
PyRound(a, b) ==
    LET q == a \div b
        r == a % b
    IN  IF 2 * r < b THEN q
        ELSE IF 2 * r > b THEN q + 1
        ELSE IF q % 2 = 0 THEN q ELSE q + 1

\* split="train[from%:to%]" (rounding "closest"): int(round(pct * n / 100)).
PctToAbs(boundary, n) == Min(PyRound(boundary * n, 100), n)

\* An absent bound of a slice is <<>>, a given one is <<pct>>.
SliceRowsPct(instr, n) ==
    [lo |-> IF instr.from = <<>> THEN 0 ELSE PctToAbs(instr.from[1], n),
     hi |-> IF instr.to = <<>> THEN n ELSE PctToAbs(instr.to[1], n)]

\* line 429: split="train[5%:]"
TrainSplitMutant == [from |-> <<>>, to |-> <<95>>]

TrainSplit == [from |-> <<5>>, to |-> <<>>]

\* line 457: split="train[:5%]"
ValidationSplit == [from |-> <<>>, to |-> <<5>>]

\* lines 500-501: select(range(10000)), select(range(1000))
SelectTrain == 10000
SelectValidation == 1000

\* Dataset.select(range(n)): an empty dataset is returned as it is; an
\* index past the end raises IndexError.
SelectRaises(d, n) == NumRecords(d) # 0 /\ n > NumRecords(d)

Select(d, n) ==
    IF NumRecords(d) = 0 THEN d ELSE [lo |-> d.lo, hi |-> d.lo + n]

(***************************************************************************)
(* The statements.                                                         *)
(***************************************************************************)
ConfigPath == model_dir \o "/config.json"
TokenizerPath == model_dir \o "/tokenizer.json"

\* line 72: language = "ko"
SetLanguage ==
    /\ At("language")
    /\ language' = "ko"
    /\ UNCHANGED <<model_config, model_dir, config, defs, fs, raw_dataset,
       tokenizer, max_seq_length, tokenized_datasets>>
    /\ Advance

\* line 93: model_config = "roberta-base"
SetModelConfig ==
    /\ At("model_config")
    /\ model_config' = "roberta-base"
    /\ UNCHANGED <<language, model_dir, config, defs, fs, raw_dataset,
       tokenizer, max_seq_length, tokenized_datasets>>
    /\ Advance

\* line 115: model_dir = model_config + f"-pretrained-{language}"
SetModelDir ==
    /\ At("model_dir")
    /\ model_dir' = model_config \o "-pretrained-" \o language
    /\ UNCHANGED <<language, model_config, config, defs, fs, raw_dataset,
       tokenizer, max_seq_length, tokenized_datasets>>
    /\ Advance

\* A mkdir that starts the directory afresh.
PathMkdirMutant(f, path) == Assign(<<>>, path, [kind |-> "dir"])

\* Path(path).mkdir(parents=True, exist_ok=True): makes the directory when
\* it is missing and leaves an existing directory, and its files, alone.
PathMkdir(f, path) ==
    IF path \in DOMAIN f THEN f ELSE Assign(f, path, [kind |-> "dir"])

\* line 137: Path(model_dir).mkdir(parents=True, exist_ok=True)
Mkdir ==
    /\ At("mkdir")
    /\ fs' = PathMkdir(fs, model_dir)
    /\ UNCHANGED <<language, model_config, model_dir, config, defs,
       raw_dataset, tokenizer, max_seq_length, tokenized_datasets>>
    /\ Advance

\* line 159: config = AutoConfig.from_pretrained(model_config)
ConfigFromPretrained ==
    /\ At("config_from_pretrained")
    /\ \/ /\ config' = Defined(model_config)
          /\ UNCHANGED <<language, model_config, model_dir, defs, fs,
             raw_dataset, tokenizer, max_seq_length, tokenized_datasets>>
          /\ Advance
       \/ \E exc \in LibraryErrors : Raise(exc)

\* line 179: config.save_pretrained(model_dir) makes the directory if needed
\* and writes config.json.
ConfigSavePretrained ==
    /\ At("config_save_pretrained")
    /\ \/ /\ fs' = Assign(Assign(fs, model_dir, [kind |-> "dir"]), ConfigPath,
                         [kind |-> "config", model |-> config.value])
          /\ UNCHANGED <<language, model_config, model_dir, config, defs,
             raw_dataset, tokenizer, max_seq_length, tokenized_datasets>>
          /\ Advance
       \/ \E exc \in LibraryErrors : Raise(exc)

\* line 253: raw_dataset = load_dataset("oscar", ...): a DatasetDict with the
\* one split "train".
LoadDataset ==
    /\ At("load_dataset")
    /\ \/ /\ raw_dataset' = Assign(<<>>, "train", [lo |-> 0, hi |-> corpus])
          /\ UNCHANGED <<language, model_config, model_dir, config, defs,
             fs, tokenizer, max_seq_length, tokenized_datasets>>
          /\ Advance
       \/ \E exc \in LibraryErrors : Raise(exc)

\* line 313: tokenizer = ByteLevelBPETokenizer(): a tokenizer with an empty
\* vocabulary.  No later statement trains it.
NewTokenizer ==
    /\ At("new_tokenizer")
    /\ tokenizer' = [defined |-> TRUE, class |-> "ByteLevelBPETokenizer",
                     trained |-> FALSE]
    /\ UNCHANGED <<language, model_config, model_dir, config, defs, fs,
       raw_dataset, max_seq_length, tokenized_datasets>>
    /\ Advance

\* lines 333-335: def batch_iterator (defined, never called)
DefBatchIterator ==
    /\ At("def_batch_iterator")
    /\ defs' = defs \cup {"batch_iterator"}
    /\ UNCHANGED <<language, model_config, model_dir, config, fs,
       raw_dataset, tokenizer, max_seq_length, tokenized_datasets>>
    /\ Advance

\* line 364: tokenizer.save(f"{model_dir}/tokenizer.json") writes the
\* tokenizer as it is; it raises when the directory is missing.
TokenizerSave ==
    /\ At("tokenizer_save")
    /\ \/ /\ model_dir \in DOMAIN fs
          /\ fs' = Assign(fs, TokenizerPath,
                          [kind |-> "tokenizer", trained |-> tokenizer.trained])
          /\ UNCHANGED <<language, model_config, model_dir, config, defs,
                         raw_dataset, tokenizer, max_seq_length,
                         tokenized_datasets>>
          /\ Advance
       \/ \E exc \in LibraryErrors : Raise(exc)

\* line 397: max_seq_length = 128
SetMaxSeqLength ==
    /\ At("max_seq_length")
    /\ max_seq_length' = CellMaxSeqLength("max_seq_length", max_seq_length)
    /\ UNCHANGED <<language, model_config, model_dir, config, defs, fs,
       raw_dataset, tokenizer, tokenized_datasets>>
    /\ Advance

\* line 429: raw_dataset["train"] = load_dataset(..., split="train[5%:]")
SplitTrain ==
    /\ At("split_train")
    /\ \/ /\ raw_dataset' = Assign(raw_dataset, "train",
                                  SliceRowsPct(TrainSplit, corpus))
          /\ UNCHANGED <<language, model_config, model_dir, config, defs,
             fs, tokenizer, max_seq_length, tokenized_datasets>>
          /\ Advance
       \/ \E exc \in LibraryErrors : Raise(exc)

\* line 457: raw_dataset["validation"] = load_dataset(..., split="train[:5%]")
SplitValidation ==
    /\ At("split_validation")
    /\ \/ /\ raw_dataset' = Assign(raw_dataset, "validation",
                                  SliceRowsPct(ValidationSplit, corpus))
          /\ UNCHANGED <<language, model_config, model_dir, config, defs,
             fs, tokenizer, max_seq_length, tokenized_datasets>>
          /\ Advance
       \/ \E exc \in LibraryErrors : Raise(exc)

\* line 500: raw_dataset["train"] = raw_dataset["train"].select(range(10000))
DoSelectTrain ==
    /\ At("select_train")
    /\ \/ /\ ~SelectRaises(raw_dataset["train"], SelectTrain)
          /\ raw_dataset' = Assign(raw_dataset, "train",
                                   Select(raw_dataset["train"], SelectTrain))
          /\ UNCHANGED <<language, model_config, model_dir, config, defs, fs,
                         tokenizer, max_seq_length, tokenized_datasets>>
          /\ Advance
       \/ /\ SelectRaises(raw_dataset["train"], SelectTrain)
          /\ Raise("IndexError")

\* line 501: raw_dataset["validation"] =
\*               raw_dataset["validation"].select(range(1000))
DoSelectValidation ==
    /\ At("select_validation")
    /\ \/ /\ ~SelectRaises(raw_dataset["validation"], SelectValidation)
          /\ raw_dataset' = Assign(raw_dataset, "validation",
                                   Select(raw_dataset["validation"],
                                          SelectValidation))
          /\ UNCHANGED <<language, model_config, model_dir, config, defs, fs,
                         tokenizer, max_seq_length, tokenized_datasets>>
          /\ Advance
       \/ /\ SelectRaises(raw_dataset["validation"], SelectValidation)
          /\ Raise("IndexError")

\* line 531: tokenizer = AutoTokenizer.from_pretrained(model_dir) reads
\* config.json and tokenizer.json back: the tokenizer that was saved.
TokenizerFromPretrained ==
    /\ At("tokenizer_from_pretrained")
    /\ \/ /\ {ConfigPath, TokenizerPath} \subseteq DOMAIN fs
          /\ tokenizer' = [defined |-> TRUE, class |-> "PreTrainedTokenizerFast",
                           trained |-> fs[TokenizerPath].trained]
          /\ UNCHANGED <<language, model_config, model_dir, config, defs, fs,
                         raw_dataset, max_seq_length, tokenized_datasets>>
          /\ Advance
       \/ \E exc \in LibraryErrors : Raise(exc)

\* lines 571-572: def tokenize_function
DefTokenizeFunction ==
    /\ At("def_tokenize_function")
    /\ defs' = defs \cup {"tokenize_function"}
    /\ UNCHANGED <<language, model_config, model_dir, config, fs,
       raw_dataset, tokenizer, max_seq_length, tokenized_datasets>>
    /\ Advance

\* line 723: tokenized_datasets = raw_dataset.map(tokenize_function, ...):
\* every split, tokenized by the global tokenizer, the raw columns removed.
RunMapTokenizeFunction ==
    /\ At("map_tokenize_function")
    /\ \/ /\ tokenized_datasets' =
              Defined([stage |-> "tokenized", rows |-> raw_dataset,
                       columns |-> TokenizerColumns,
                       trained |-> tokenizer.trained, block |-> 0])
          /\ UNCHANGED <<language, model_config, model_dir, config, defs,
             fs, raw_dataset, tokenizer, max_seq_length>>
          /\ Advance
       \/ \E exc \in LibraryErrors : Raise(exc)

\* lines 747-755: def group_texts
DefGroupTexts ==
    /\ At("def_group_texts")
    /\ defs' = defs \cup {"group_texts"}
    /\ UNCHANGED <<language, model_config, model_dir, config, fs,
       raw_dataset, tokenizer, max_seq_length, tokenized_datasets>>
    /\ Advance

\* line 902: tokenized_datasets = tokenized_datasets.map(group_texts, ...):
\* every split, regrouped into blocks of max_seq_length tokens.
RunMapGroupTexts ==
    /\ At("map_group_texts")
    /\ \/ /\ tokenized_datasets' =
              Defined([tokenized_datasets.value EXCEPT
                           !.stage = "grouped",
                           !.block = max_seq_length.value])
          /\ UNCHANGED <<language, model_config, model_dir, config, defs,
             fs, raw_dataset, tokenizer, max_seq_length>>
          /\ Advance
       \/ \E exc \in LibraryErrors : Raise(exc)

(***************************************************************************)
(* Spec: one run of the notebook.  The cached corpus has any number of     *)
(* records up to MaxSmallCorpus, or one of a few larger sizes around the   *)
(* thresholds of the select cell (the recorded run had 3675420); the       *)
(* model directory is absent or left over from an earlier run.             *)
(***************************************************************************)
MaxSmallCorpus == 40

LargeCorpora == {999, 10526, 10527, 15000, 19989, 19990, 20000, 20001,
                 25010, 3675420}

CorpusSizes == (0..MaxSmallCorpus) \cup LargeCorpora

\* What an earlier run of the notebook has left in the working directory:
\* the model directory with config.json and the saved tokenizer.
EarlierRunFs ==
    ("roberta-base-pretrained-ko" :> [kind |-> "dir"])
    @@ ("roberta-base-pretrained-ko/config.json" :>
            [kind |-> "config", model |-> "roberta-base"])
    @@ ("roberta-base-pretrained-ko/tokenizer.json" :>
            [kind |-> "tokenizer", trained |-> FALSE])

\* The working directory at kernel start: no model directory, an empty
\* one, or the one of an earlier run.
InitialFs ==
    {<<>>, Assign(<<>>, "roberta-base-pretrained-ko", [kind |-> "dir"]),
     EarlierRunFs}

Init ==
    /\ pc = 1
    /\ run = "running"
    /\ error = NoError
    /\ executed = [i \in 1..Len(Steps) |-> 0]
    /\ corpus \in CorpusSizes
    /\ language = ""
    /\ model_config = ""
    /\ model_dir = ""
    /\ config = Undefined
    /\ defs = {}
    /\ fs \in InitialFs
    /\ raw_dataset = <<>>
    /\ tokenizer = Undefined
    /\ tokenized_datasets = Undefined
    /\ max_seq_length = Undefined
    /\ InitGroupVars
    /\ InitMapVars
    /\ InitShIdle
    /\ InitIterIdle

Next ==
    \/ SetLanguage
    \/ SetModelConfig
    \/ SetModelDir
    \/ Mkdir
    \/ ConfigFromPretrained
    \/ ConfigSavePretrained
    \/ LoadDataset
    \/ NewTokenizer
    \/ DefBatchIterator
    \/ TokenizerSave
    \/ SetMaxSeqLength
    \/ SplitTrain
    \/ SplitValidation
    \/ DoSelectTrain
    \/ DoSelectValidation
    \/ TokenizerFromPretrained
    \/ DefTokenizeFunction
    \/ RunMapTokenizeFunction
    \/ DefGroupTexts
    \/ RunMapGroupTexts

Spec == Init /\ [][Next]_vars

(***************************************************************************)
(* Properties of the notebook run (Spec).                                  *)
(***************************************************************************)

\* Both split cells have run and the select cell has not.
AfterSplitCells ==
    /\ run = "running"
    /\ pc = StepIndex("select_train")

\* Two datasets hold the same records, in the same order.
SameRecords(a, b) == (NumRecords(a) = 0 /\ NumRecords(b) = 0) \/ a = b

\* C6 as stated: after the two split cells raw_dataset["train"] holds the
\* first 95% of the corpus records and raw_dataset["validation"] the final
\* 5%.
C6_Original ==
    AfterSplitCells =>
        /\ SameRecords(raw_dataset["train"],
                       [lo |-> 0, hi |-> PctToAbs(95, corpus)])
        /\ SameRecords(raw_dataset["validation"],
                       [lo |-> PctToAbs(95, corpus), hi |-> corpus])

\* C7: once both splits exist, no corpus record is in both of them (also
\* after the select cell); directly after the split cells every corpus
\* record is in exactly one of them.
C7_HeldOut ==
    "validation" \in DOMAIN raw_dataset =>
        /\ \A i \in Rows(raw_dataset["validation"]) :
               i \notin Rows(raw_dataset["train"])
        /\ AfterSplitCells =>
               \A i \in 0..(corpus - 1) :
                   (i \in Rows(raw_dataset["train"]))
                       # (i \in Rows(raw_dataset["validation"]))

\* C7 witness: the run finished, the select cell having cut the train split
\* to 10000 records and the validation split to 1000.
C7_Witness ==
    /\ run = "done"
    /\ NumRecords(raw_dataset["train"]) = SelectTrain
    /\ NumRecords(raw_dataset["validation"]) = SelectValidation
    /\ corpus > SelectTrain + SelectValidation

\* C8 as stated: the tokenizer written to tokenizer.json has been trained,
\* so the tokenizer loaded back from model_dir and the one the tokenized
\* datasets were made with are never the untrained one.
C8_Original ==
    /\ TokenizerPath \in DOMAIN fs => fs[TokenizerPath].trained
    /\ (tokenizer.defined /\ tokenizer.class = "PreTrainedTokenizerFast")
           => tokenizer.trained
    /\ tokenized_datasets.defined => tokenized_datasets.value.trained

\* C9: every statement runs at most once; tokenization runs only after the
\* dataset was loaded and split, chunking only after tokenization; after
\* chunking nothing more is executed.
C9_LinearPipeline ==
    LET ran(name) == executed[StepIndex(name)]
    IN  /\ \A i \in 1..Len(Steps) : executed[i] <= 1
        /\ ran("map_tokenize_function") >= 1 =>
               /\ ran("load_dataset") = 1
               /\ ran("split_train") = 1
               /\ ran("split_validation") = 1
               /\ {"train", "validation"} \subseteq DOMAIN raw_dataset
        /\ ran("map_group_texts") >= 1 =>
               /\ ran("map_tokenize_function") = 1
               /\ tokenized_datasets.defined
               /\ run \in {"done", "failed"}
               /\ ~ENABLED Next

\* C9 witness: a run that reached its end, the datasets chunked.
C9_Witness ==
    /\ run = "done"
    /\ executed[StepIndex("map_group_texts")] = 1
    /\ tokenized_datasets.defined
    /\ tokenized_datasets.value.stage = "grouped"

\* C10: a statement that raises ends the run with the library's exception:
\* it was tried once, it assigned nothing, pc stays on it, and no statement
\* is executed after a failure.
C10_FailureEndsRun ==
    [][/\ run # "failed"
       /\ error' # NoError => run' = "failed"
       /\ run' = "failed" =>
              /\ globals' = globals
              /\ pc' = pc
              /\ executed[pc] = 0 /\ executed'[pc] = 1
              /\ error'.step = Steps[pc]
              /\ error'.exc \in LibraryErrors \cup {"IndexError"}]_vars

\* C10 witness: the tokenization step raised; the splits and the tokenizer
\* assigned by the earlier steps are still there.
C10_Witness ==
    /\ run = "failed"
    /\ error.step = "map_tokenize_function"
    /\ "validation" \in DOMAIN raw_dataset
    /\ tokenizer.defined
    /\ ~tokenized_datasets.defined

\* C12: model_dir is model_config + "-pretrained-" + language, that is
\* "roberta-base-pretrained-ko"; config.save_pretrained and tokenizer.save
\* are executed only after the mkdir statement, on an existing directory,
\* and what they write lies in it; the mkdir statement never fails, and
\* every file that was there before it is there, unchanged, after it.
C12_ModelDirExistsBeforeSave ==
    [][/\ model_dir' # model_dir =>
              /\ model_dir' = model_config \o "-pretrained-" \o language
              /\ model_dir' = "roberta-base-pretrained-ko"
       /\ \A name \in {"config_save_pretrained", "tokenizer_save"} :
              executed'[StepIndex(name)] # executed[StepIndex(name)] =>
                  /\ executed[StepIndex("mkdir")] = 1
                  /\ model_dir \in DOMAIN fs
                  /\ fs[model_dir].kind = "dir"
                  /\ run' # "failed" =>
                         /\ model_dir \in DOMAIN fs'
                         /\ (IF name = "tokenizer_save" THEN TokenizerPath
                             ELSE ConfigPath) \in DOMAIN fs'
       /\ executed'[StepIndex("mkdir")] # executed[StepIndex("mkdir")] =>
              /\ run' # "failed"
              /\ model_dir \in DOMAIN fs'
              /\ fs'[model_dir].kind = "dir"
              /\ \A q \in DOMAIN fs : q \in DOMAIN fs' /\ fs'[q] = fs[q]]_vars

\* C12 witness: the mkdir cell has just run on the directory an earlier run
\* left; the run goes on and both files of the earlier run are still there.
C12_Witness ==
    /\ run = "running"
    /\ pc = StepIndex("mkdir") + 1
    /\ executed[StepIndex("mkdir")] = 1
    /\ model_dir = "roberta-base-pretrained-ko"
    /\ fs[model_dir].kind = "dir"
    /\ ConfigPath \in DOMAIN fs
    /\ TokenizerPath \in DOMAIN fs

\* The recorded run (cell 18): 3675420 records split into 3491649 and 183771.
RecordedSplitSizes ==
    (AfterSplitCells /\ corpus = 3675420) =>
        /\ NumRecords(raw_dataset["train"]) = 3491649
        /\ NumRecords(raw_dataset["validation"]) = 183771

(***************************************************************************)
(* reset-lib.sh (src/reset-lib.sh): the script that builds the conda       *)
(* environment and vendors four libraries below lib/.  The script has no   *)
(* "set -e": a command that fails only cuts the rest of its own && chain,  *)
(* and the shell goes on with the next line.                               *)
(***************************************************************************)

EnvName == "CrossKorean-22.10"

\* One command of the script.  chained: joined by && to the command before
\* it, so it runs only when that one succeeded.
Cmd(line, op, arg, tag, chained) ==
    [line |-> line, op |-> op, arg |-> arg, tag |-> tag, chained |-> chained]

\* Lines 2-15: conda and the pip installs of released packages.
ScriptSetup ==
    << Cmd(2, "conda_update", "base", "", FALSE),
       Cmd(3, "conda_create", EnvName, "", FALSE),
       Cmd(3, "conda_activate", EnvName, "", FALSE),
       Cmd(6, "pip_install", "pip", "", FALSE),
       Cmd(7, "pip_install", "jupyter", "", FALSE),
       Cmd(8, "pip_install", "torch", "", FALSE),
       Cmd(12, "pip_install", "lightning", "", FALSE),
       Cmd(13, "pip_install", "huggingface-hub", "", FALSE),
       Cmd(14, "pip_install", "tokenizers", "", FALSE),
       Cmd(15, "pip_install", "flax", "", FALSE) >>

\* Lines 18-22: a fresh lib/ and the four clones, each followed by the
\* removal of the clone's dot files.
ScriptClone ==
    << Cmd(18, "rm_rf", "lib", "", FALSE),
       Cmd(18, "mkdir", "lib", "", TRUE),
       Cmd(18, "cd", "lib", "", TRUE),
       Cmd(19, "git_clone", "attrdict", "v2.0.0", FALSE),
       Cmd(19, "rm_dotfiles", "attrdict", "", TRUE),
       Cmd(20, "git_clone", "datasets", "2.6.1", FALSE),
       Cmd(20, "rm_dotfiles", "datasets", "", TRUE),
       Cmd(21, "git_clone", "evaluate", "v0.3.0", FALSE),
       Cmd(21, "rm_dotfiles", "evaluate", "", TRUE),
       Cmd(22, "git_clone", "transformers", "v4.23.1", FALSE),
       Cmd(22, "rm_dotfiles", "transformers", "", TRUE) >>

\* Line 23: the substitution in attrdict/attrdict/*.py.
ScriptSed == << Cmd(23, "sed", "attrdict", "", FALSE) >>

\* Lines 26-30: the editable installs and the way back.
ScriptInstall ==
    << Cmd(26, "pip_install_e", "attrdict", "", FALSE),
       Cmd(27, "pip_install_e", "datasets", "", FALSE),
       Cmd(28, "pip_install_e", "evaluate", "", FALSE),
       Cmd(29, "pip_install_e", "transformers", "", FALSE) >>

ScriptCdBack == << Cmd(30, "cd", "..", "", FALSE) >>

\* The script with the substitution moved behind the installs.
ScriptMutant ==
    ScriptSetup \o ScriptClone \o ScriptInstall \o ScriptSed \o ScriptCdBack

\* The script, command by command, in the order of the file.
Script ==
    ScriptSetup \o ScriptClone \o ScriptSed \o ScriptInstall \o ScriptCdBack

Libraries == {"attrdict", "datasets", "evaluate", "transformers"}

\* The command the shell is about to run.
ShAt(op) ==
    /\ sh_pc \in 1..Len(Script)
    /\ Script[sh_pc].op = op

ShCmd == Script[sh_pc]

\* The first command after i that is not chained to its predecessor: where
\* the shell goes on when command i has failed.
SkipChain(i) ==
    IF \E j \in (i + 1)..Len(Script) : ~Script[j].chained
    THEN CHOOSE j \in (i + 1)..Len(Script) :
             /\ ~Script[j].chained
             /\ \A k \in (i + 1)..(j - 1) : Script[k].chained
    ELSE Len(Script) + 1

\* After command i: the next command when it succeeded, the next line or
\* chain when it failed.
ShNext(i, ok) == IF ok THEN i + 1 ELSE SkipChain(i)

\* A relative path, resolved against the working directory.
ShPath(cwd, name) == IF cwd = "root" THEN name ELSE cwd \o "/" \o name

\* cd's target: a directory below the root, the root, or the root's parent.
CdTarget(cwd, arg) ==
    IF arg = ".." THEN (IF cwd = "lib" THEN "root" ELSE "outside")
    ELSE ShPath(cwd, arg)

\* The paths at or below a directory.
Below(f, dir) ==
    {q \in DOMAIN f : q = dir \/ \E l \in Libraries : q = dir \o "/" \o l}

\* The file system without the paths in gone.
Without(f, gone) == [q \in DOMAIN f \ gone |-> f[q]]

\* A vendoring command, as the log keeps it.
Event(c, ok) == [op |-> c.op, arg |-> c.arg, tag |-> c.tag, ok |-> ok]

ShIdleRest == <<nbVars, max_seq_length, groupVars, mapVars, iterVars>>

\* conda update -n base -c defaults conda: nothing the script reads later.
CondaUpdate ==
    /\ ShAt("conda_update")
    /\ sh_pc' = sh_pc + 1
    /\ UNCHANGED <<sh_cwd, sh_fs, sh_env, sh_installed, sh_log, ShIdleRest>>

\* conda create --name CrossKorean-22.10 python=3.10 -y
CondaCreate ==
    /\ ShAt("conda_create")
    /\ \E ok \in BOOLEAN :
          sh_env' = IF ok
                    THEN [sh_env EXCEPT !.envs = @ \cup {ShCmd.arg}]
                    ELSE sh_env
    /\ sh_pc' = sh_pc + 1
    /\ UNCHANGED <<sh_cwd, sh_fs, sh_installed, sh_log, ShIdleRest>>

\* conda activate CrossKorean-22.10: needs the environment, and conda's
\* shell hook, which a non-interactive shell may not have loaded.
CondaActivate ==
    /\ ShAt("conda_activate")
    /\ \E ok \in BOOLEAN :
          sh_env' = IF ok /\ ShCmd.arg \in sh_env.envs
                    THEN [sh_env EXCEPT !.active = ShCmd.arg]
                    ELSE sh_env
    /\ sh_pc' = sh_pc + 1
    /\ UNCHANGED <<sh_cwd, sh_fs, sh_installed, sh_log, ShIdleRest>>

\* pip install [--upgrade] <released packages>; the script does not look
\* at the exit status.
PipInstall ==
    /\ ShAt("pip_install")
    /\ sh_pc' = sh_pc + 1
    /\ UNCHANGED <<sh_cwd, sh_fs, sh_env, sh_installed, sh_log, ShIdleRest>>

\* rm -rf lib: removes lib and what is below it; it can only fail on a
\* directory that is there.
RmRf ==
    /\ ShAt("rm_rf")
    /\ LET path == ShPath(sh_cwd, ShCmd.arg) IN
       \E ok \in BOOLEAN :
          /\ ok \/ path \in DOMAIN sh_fs
          /\ sh_fs' = IF ok THEN Without(sh_fs, Below(sh_fs, path)) ELSE sh_fs
          /\ sh_pc' = ShNext(sh_pc, ok)
    /\ UNCHANGED <<sh_cwd, sh_env, sh_installed, sh_log, ShIdleRest>>

\* mkdir lib: fails when the path exists.
ShMkdir ==
    /\ ShAt("mkdir")
    /\ LET path == ShPath(sh_cwd, ShCmd.arg)
           ok   == path \notin DOMAIN sh_fs
       IN /\ sh_fs' = IF ok THEN Assign(sh_fs, path, [kind |-> "dir"])
                      ELSE sh_fs
          /\ sh_pc' = ShNext(sh_pc, ok)
    /\ UNCHANGED <<sh_cwd, sh_env, sh_installed, sh_log, ShIdleRest>>

\* cd lib, cd ..
Cd ==
    /\ ShAt("cd")
    /\ LET target == CdTarget(sh_cwd, ShCmd.arg)
           ok     == ShCmd.arg = ".." \/ target \in DOMAIN sh_fs
       IN /\ sh_cwd' = IF ok THEN target ELSE sh_cwd
          /\ sh_pc' = ShNext(sh_pc, ok)
    /\ UNCHANGED <<sh_fs, sh_env, sh_installed, sh_log, ShIdleRest>>

\* git clone <url> -b <tag> <dir>: fails when <dir> exists, and may fail
\* on the network or the ssh key; a clone that fails leaves nothing.
GitClone ==
    /\ ShAt("git_clone")
    /\ LET path == ShPath(sh_cwd, ShCmd.arg) IN
       \E net \in BOOLEAN :
          LET ok == net /\ path \notin DOMAIN sh_fs IN
          /\ sh_fs' = IF ok
                      THEN Assign(sh_fs, path,
                                  [kind |-> "repo", tag |-> ShCmd.tag,
                                   dotfiles |-> TRUE, patched |-> FALSE])
                      ELSE sh_fs
          /\ sh_log' = Append(sh_log, Event(ShCmd, ok))
          /\ sh_pc' = ShNext(sh_pc, ok)
    /\ UNCHANGED <<sh_cwd, sh_env, sh_installed, ShIdleRest>>

\* rm -rf <dir>/.*: the clone loses .git and its other dot files.
RmDotfiles ==
    /\ ShAt("rm_dotfiles")
    /\ LET path == ShPath(sh_cwd, ShCmd.arg) IN
       sh_fs' = IF path \in DOMAIN sh_fs /\ sh_fs[path].kind = "repo"
                THEN [sh_fs EXCEPT ![path].dotfiles = FALSE]
                ELSE sh_fs
    /\ sh_pc' = sh_pc + 1
    /\ UNCHANGED <<sh_cwd, sh_env, sh_installed, sh_log, ShIdleRest>>

\* sed -i "s/from collections import/from collections.abc import/"
\*     attrdict/attrdict/*.py: fails when the glob matches no file.
Sed ==
    /\ ShAt("sed")
    /\ LET path == ShPath(sh_cwd, ShCmd.arg)
           ok   == path \in DOMAIN sh_fs /\ sh_fs[path].kind = "repo"
       IN /\ sh_fs' = IF ok THEN [sh_fs EXCEPT ![path].patched = TRUE]
                      ELSE sh_fs
          /\ sh_log' = Append(sh_log, Event(ShCmd, ok))
          /\ sh_pc' = ShNext(sh_pc, ok)
    /\ UNCHANGED <<sh_cwd, sh_env, sh_installed, ShIdleRest>>

\* pip install -e <dir>: links the directory, as it is now, into the active
\* environment; fails without the directory, and may fail in the build.
PipInstallE ==
    /\ ShAt("pip_install_e")
    /\ LET path == ShPath(sh_cwd, ShCmd.arg) IN
       \E build \in BOOLEAN :
          LET ok == /\ build
                    /\ path \in DOMAIN sh_fs
                    /\ sh_fs[path].kind = "repo" IN
          /\ sh_installed' =
                 IF ok
                 THEN Assign(sh_installed, ShCmd.arg,
                             [path |-> path, env |-> sh_env.active,
                              tag |-> sh_fs[path].tag,
                              patched |-> sh_fs[path].patched])
                 ELSE sh_installed
          /\ sh_log' = Append(sh_log, Event(ShCmd, ok))
          /\ sh_pc' = ShNext(sh_pc, ok)
    /\ UNCHANGED <<sh_cwd, sh_fs, sh_env, ShIdleRest>>

\* What a complete earlier run of the script has left below the root.
VendoredLib ==
    LET repo(t) == [kind |-> "repo", tag |-> t, dotfiles |-> FALSE,
                    patched |-> FALSE]
    IN  ("lib" :> [kind |-> "dir"])
        @@ ("lib/attrdict" :> [repo("v2.0.0") EXCEPT !.patched = TRUE])
        @@ ("lib/datasets" :> repo("2.6.1"))
        @@ ("lib/evaluate" :> repo("v0.3.0"))
        @@ ("lib/transformers" :> repo("v4.23.1"))

\* The script starts in the repository root, in conda's base environment,
\* on a checkout without lib/ or with the lib/ of an earlier run.
InitSh ==
    /\ sh_pc = 1
    /\ sh_cwd = "root"
    /\ sh_fs \in {<<>>, VendoredLib}
    /\ sh_env = [envs |-> {"base"}, active |-> "base"]
    /\ sh_installed = <<>>
    /\ sh_log = <<>>
    /\ InitIterIdle
    /\ InitGroupVars
    /\ InitMapVars
    /\ InitNbIdle
    /\ max_seq_length = Undefined

NextSh ==
    \/ CondaUpdate
    \/ CondaCreate
    \/ CondaActivate
    \/ PipInstall
    \/ RmRf
    \/ ShMkdir
    \/ Cd
    \/ GitClone
    \/ RmDotfiles
    \/ Sed
    \/ PipInstallE

SpecSh == InitSh /\ [][NextSh]_vars

\* The positions in the log of the events of one kind about one library.
LogAt(op, lib) ==
    {i \in 1..Len(sh_log) : sh_log[i].op = op /\ sh_log[i].arg = lib}

ScriptFinished == sh_pc = Len(Script) + 1

\* C11: each library is cloned at most once and at one fixed tag; every
\* pip install -e of a library comes after that library's clone; the sed
\* on attrdict comes after attrdict's clone and before attrdict's install;
\* what gets installed is a directory this run cloned at that tag, and for
\* attrdict a patched one.
C11_CloneThenPatchThenInstall ==
    /\ \A lib \in Libraries :
          /\ Cardinality(LogAt("git_clone", lib)) <= 1
          /\ Cardinality(LogAt("pip_install_e", lib)) <= 1
          /\ \A j \in LogAt("pip_install_e", lib) :
                /\ \E i \in LogAt("git_clone", lib) : i < j
                /\ sh_log[j].ok =>
                      \E i \in LogAt("git_clone", lib) :
                         /\ sh_log[i].ok
                         /\ sh_installed[lib].tag = sh_log[i].tag
    /\ \A i \in 1..Len(sh_log) :
          sh_log[i].op = "git_clone" =>
              sh_log[i].tag =
                  CASE sh_log[i].arg = "attrdict" -> "v2.0.0"
                    [] sh_log[i].arg = "datasets" -> "2.6.1"
                    [] sh_log[i].arg = "evaluate" -> "v0.3.0"
                    [] sh_log[i].arg = "transformers" -> "v4.23.1"
    /\ \A s \in 1..Len(sh_log) :
          sh_log[s].op = "sed" =>
              /\ sh_log[s].arg = "attrdict"
              /\ \E i \in LogAt("git_clone", "attrdict") : i < s
              /\ \A j \in LogAt("pip_install_e", "attrdict") : s < j
    /\ \A j \in LogAt("pip_install_e", "attrdict") :
          /\ \E s \in LogAt("sed", "attrdict") : s < j
          /\ sh_log[j].ok => sh_installed["attrdict"].patched
    /\ ScriptFinished =>
          \A lib \in Libraries :
             /\ LogAt("git_clone", lib) # {}
             /\ LogAt("pip_install_e", lib) # {}

\* C11 witness: the script has run to its end, every clone, the sed and
\* every install succeeded, and all four libraries are installed from lib/.
C11_Witness ==
    /\ ScriptFinished
    /\ DOMAIN sh_installed = Libraries
    /\ \A i \in 1..Len(sh_log) : sh_log[i].ok
    /\ sh_cwd = "root"
    /\ sh_installed["attrdict"].patched
    /\ sh_installed["transformers"].path = "lib/transformers"

(***************************************************************************)
(* batch_iterator (src/note/pretrain_mlm.ipynb, lines 333-335): the        *)
(* generator the notebook defines for the tokenizer's training.  It reads  *)
(* the global raw_dataset, which load_dataset (line 253) has made a        *)
(* DatasetDict: a dict from split names to datasets.                       *)
(***************************************************************************)

MaxIterRecords == 12
MaxBatch == 4

\* def batch_iterator(batch_size=1000)
DefaultBatchSize == 1000

BatchSizeChoices == (1..MaxBatch) \cup {DefaultBatchSize}

\* len(d) of a dict: the number of its keys.  For the DatasetDict
\* raw_dataset that is the number of splits.
PyLenDict(d) == Cardinality(DOMAIN d)

\* ds[i:j]["text"]: the texts of rows i .. j - 1 of the dataset, clipped to
\* its length; a text is identified by its record.
TextSlice(ds, i, j) ==
    [k \in 1..(Min(j, NumRecords(ds)) - Min(i, NumRecords(ds))) |->
        ds.lo + Min(i, NumRecords(ds)) + k - 1]

\* line 334: range(0, len(raw_dataset), batch_size)
LoopStarts(ds, bs) == PyRange(0, PyLenDict(ds), bs)

\* raw_dataset as the notebook has it after line 253 (one split), and after
\* lines 429 and 457 (train and validation).
RawDatasetAfter(stage, n) ==
    IF stage = "load_dataset"
    THEN Assign(<<>>, "train", [lo |-> 0, hi |-> n])
    ELSE Assign(Assign(<<>>, "train", SliceRowsPct(TrainSplit, n)),
                "validation", SliceRowsPct(ValidationSplit, n))

InitIter ==
    /\ pc = 0
    /\ run = "idle"
    /\ error = NoError
    /\ executed = <<>>
    /\ corpus \in 0..MaxIterRecords
    /\ language = "ko"
    /\ model_config = ""
    /\ model_dir = ""
    /\ config = Undefined
    /\ defs = {"batch_iterator"}
    /\ fs = <<>>
    /\ \E stage \in {"load_dataset", "split_validation"} :
          raw_dataset = RawDatasetAfter(stage, corpus)
    /\ tokenizer = Undefined
    /\ tokenized_datasets = Undefined
    /\ max_seq_length = Undefined
    /\ InitGroupVars
    /\ InitMapVars
    /\ InitShIdle
    /\ InitIterIdle

IterIdleRest == <<nbVars, max_seq_length, groupVars, mapVars, shVars>>

\* batch_iterator(batch_size) and the first next(): the for statement
\* evaluates its range once.
BatchIteratorCall ==
    /\ bi_state = "idle"
    /\ \E bs \in BatchSizeChoices :
          /\ bi_batch_size' = bs
          /\ bi_starts' = LoopStarts(raw_dataset, bs)
    /\ bi_state' = "running"
    /\ UNCHANGED <<yielded, IterIdleRest>>

\* line 335: yield raw_dataset["train"][i: i + batch_size]["text"]
BatchIteratorYield ==
    /\ bi_state = "running"
    /\ bi_starts # <<>>
    /\ LET i == Head(bi_starts) IN
       yielded' = Append(yielded,
                         TextSlice(raw_dataset["train"], i, i + bi_batch_size))
    /\ bi_starts' = Tail(bi_starts)
    /\ UNCHANGED <<bi_state, bi_batch_size, IterIdleRest>>

\* The range is exhausted: the generator returns (StopIteration).
BatchIteratorStop ==
    /\ bi_state = "running"
    /\ bi_starts = <<>>
    /\ bi_state' = "done"
    /\ UNCHANGED <<bi_batch_size, bi_starts, yielded, IterIdleRest>>

NextIter == BatchIteratorCall \/ BatchIteratorYield \/ BatchIteratorStop

SpecIter == InitIter /\ [][NextIter]_vars

\* The records of the train split, in order.
TrainRecords == TextSlice(raw_dataset["train"], 0,
                          NumRecords(raw_dataset["train"]))

\* C13: when batch_iterator(batch_size) has terminated, the batches it
\* yielded, concatenated in order, are the texts of all records of
\* raw_dataset["train"], each once, and no batch has more than batch_size
\* texts.
C13_Original ==
    bi_state = "done" =>
        /\ PySum(yielded) = TrainRecords
        /\ \A b \in 1..Len(yielded) : Len(yielded[b]) <= bi_batch_size

====
